---- MODULE Spec2Model ----
(***************************************************************************)
(* Model of scripts/clip_embed.py: a one-shot command line adapter that    *)
(* reads one JSON request from standard input, embeds an image or a text   *)
(* with an external model and writes the vector as JSON to standard        *)
(* output.  main() is cut into its statements; the external collaborators  *)
(* (the JSON parser's verdict on stdin, SentenceTransformer, PIL) are      *)
(* nondeterministic in their outcome, the script's own logic, base64       *)
(* decoding and json.dump's chunked writing are computed.                  *)
(***************************************************************************)
EXTENDS Integers, Sequences, FiniteSets, TLC

VARIABLES stdin, pc, payload, mode, model, embedding, output, exc,
          stdout, stderr, exit_code, ops, encode_arg

vars == <<stdin, pc, payload, mode, model, embedding, output, exc,
          stdout, stderr, exit_code, ops, encode_arg>>

(* ------------------------------ bounds --------------------------------- *)
\* longest imageBase64 string
MaxLen == 5
\* longest outer sequence returned by model.encode
MaxItems == 2

(* --------------------------- bounded sequences -------------------------- *)
SeqUpTo(S, n) == UNION {[1..k -> S] : k \in 0..n}

(* ------------------------------ base64 --------------------------------- *)
\* characters of an imageBase64 string: three letters of the base64
\* alphabet, the pad character and one character outside the alphabet
B64Alphabet == {"/", "9", "j"}
PadChar == "="
Chars == B64Alphabet \cup {PadChar, "!"}

\* the 6-bit value of an alphabet character (RFC 4648 table)
B64Val(c) == CASE c = "/" -> 63 [] c = "9" -> 61 [] c = "j" -> 35

RECURSIVE a2b_base64(_, _, _, _, _, _)
\* base64.b64decode(s) with validate=False, i.e. binascii.a2b_base64 in its
\* non-strict form: characters outside the alphabet are skipped, a pad that
\* completes a quad ends the input, a dangling quad is an error
a2b_base64(s, i, quad_pos, leftchar, pads, out) ==
    IF i > Len(s)
    THEN IF quad_pos = 0 THEN [ok |-> TRUE, bytes |-> out, msg |-> <<>>]
         ELSE IF quad_pos = 1
              THEN [ok |-> FALSE, bytes |-> <<>>,
                    msg |-> <<"Invalid base64-encoded string">>]
              ELSE [ok |-> FALSE, bytes |-> <<>>, msg |-> <<"Incorrect padding">>]
    ELSE IF s[i] = PadChar
         THEN IF quad_pos >= 2 /\ quad_pos + pads + 1 >= 4
              THEN [ok |-> TRUE, bytes |-> out, msg |-> <<>>]
              ELSE a2b_base64(s, i + 1, quad_pos, leftchar,
                              IF quad_pos >= 2 THEN pads + 1 ELSE pads, out)
         ELSE IF s[i] \notin B64Alphabet
              THEN a2b_base64(s, i + 1, quad_pos, leftchar, pads, out)
              ELSE LET v == B64Val(s[i]) IN
                   CASE quad_pos = 0 ->
                          a2b_base64(s, i + 1, 1, v, 0, out)
                     [] quad_pos = 1 ->
                          a2b_base64(s, i + 1, 2, v % 16, 0,
                                     Append(out, leftchar * 4 + v \div 16))
                     [] quad_pos = 2 ->
                          a2b_base64(s, i + 1, 3, v % 4, 0,
                                     Append(out, leftchar * 16 + v \div 4))
                     [] quad_pos = 3 ->
                          a2b_base64(s, i + 1, 0, 0, 0,
                                     Append(out, leftchar * 64 + v))

b64decode(s) == a2b_base64(s, 1, 0, 0, 0, <<>>)

\* Image.open(BytesIO(image_bytes)): PIL identifies the bytes by their
\* signature; the JPEG signature FF D8 FF is the one within the bound
ImageOpen(bytes) ==
    IF Len(bytes) >= 3 /\ SubSeq(bytes, 1, 3) = <<255, 216, 255>>
    THEN [ok |-> TRUE, msg |-> <<>>]
    ELSE [ok |-> FALSE, msg |-> <<"cannot identify image file">>]

\* the image handed to model.encode: converted to RGB, resized to 224x224
NormalizedImage == <<"image", "RGB", "224x224">>

(* ------------------------- values of model.encode ----------------------- *)
NotSerializable == "<object>"
Scalars == {"0.5", NotSerializable}

\* the inner lists (rows) a result may hold
Rows == {<<>>, <<"0.5">>, <<"0.5", "0.5">>, <<"0.5", NotSerializable>>}

\* an element of a result: a scalar (vals has length 1) or an inner list
ScalarElem(s) == [isList |-> FALSE, vals |-> <<s>>]
Elems == {ScalarElem(s) : s \in Scalars}
           \cup {[isList |-> TRUE, vals |-> v] : v \in Rows}

\* what SentenceTransformer.encode may return: a numpy array (has tolist),
\* a list, a tuple, or some other object
Results == {[kind |-> k, items |-> it] :
               k \in {"ndarray", "list", "tuple"}, it \in SeqUpTo(Elems, MaxItems)}
             \cup {[kind |-> "object", items |-> <<>>]}

NoResult == [kind |-> "unset", items |-> <<>>]

\* the message texts an opaque model failure may carry (str(exc) may be empty)
ModelMsgs == {<<>>, <<"model failure">>}

\* hasattr(embedding, "tolist") and embedding.tolist()
ToList(e) == IF e.kind = "ndarray" THEN [kind |-> "list", items |-> e.items] ELSE e

\* a Python list of scalars as a value
ListOf(vals) == [kind |-> "list",
                 items |-> [i \in 1..Len(vals) |-> ScalarElem(vals[i])]]

\* a variant that unwraps only a batch of exactly one row
UnwrapSingleRowOnly(e) ==
    IF e.kind = "list" /\ Len(e.items) = 1 /\ e.items[1].isList
    THEN ListOf(e.items[1].vals)
    ELSE e

\* encode_text's unwrapping of the batch result
Unwrap(e) ==
    IF e.kind = "list" /\ Len(e.items) > 0 /\ e.items[1].isList
    THEN ListOf(e.items[1].vals)
    ELSE e

(* ------------------------------ json.dump ------------------------------ *)
RECURSIVE IterencodeList(_), IterencodeFrom(_, _)
\* json.encoder._iterencode_list: the chunks yielded before the encoder
\* either finishes (ok) or raises TypeError on a value it cannot serialize
IterencodeFrom(items, i) ==
    IF i > Len(items) THEN [chunks |-> <<"]">>, ok |-> TRUE]
    ELSE LET buf == IF i = 1 THEN "[" ELSE ", "
             e == items[i]
         IN IF e.isList
            THEN LET inner == IterencodeList(ListOf(e.vals).items) IN
                 IF inner.ok
                 THEN LET rest == IterencodeFrom(items, i + 1) IN
                      [chunks |-> <<buf>> \o inner.chunks \o rest.chunks,
                       ok |-> rest.ok]
                 ELSE [chunks |-> <<buf>> \o inner.chunks, ok |-> FALSE]
            ELSE IF e.vals[1] = NotSerializable
                 THEN [chunks |-> <<buf>>, ok |-> FALSE]
                 ELSE LET rest == IterencodeFrom(items, i + 1) IN
                      [chunks |-> <<buf, e.vals[1]>> \o rest.chunks,
                       ok |-> rest.ok]

IterencodeList(items) ==
    IF items = <<>> THEN [chunks |-> <<"[]">>, ok |-> TRUE]
    ELSE IterencodeFrom(items, 1)

\* json.dump(obj, fp): every chunk is written to fp as soon as it is yielded
Iterencode(obj) ==
    IF obj.kind \in {"list", "tuple"} THEN IterencodeList(obj.items)
    ELSE [chunks |-> <<>>, ok |-> FALSE]

(* ------------------------------ requests ------------------------------- *)
Keys == {"mode", "imageBase64", "text"}

\* a document on standard input: not JSON at all, a JSON value that is not
\* an object, or an object with some of the three keys
Doc(kind, keys, m, b, t) ==
    [kind |-> kind, keys |-> keys,
     mode |-> IF "mode" \in keys THEN m ELSE "",
     imageBase64 |-> IF "imageBase64" \in keys THEN b ELSE <<>>,
     text |-> IF "text" \in keys THEN t ELSE ""]

ModeValues == {"", "image", "text", "unsupported"}
TextValues == {"", "a photo"}

\* image requests carry every imageBase64 string within the bound
ImageDocs == {Doc("object", ks \cup {"mode"}, "image", b, "") :
                 ks \in SUBSET {"imageBase64"}, b \in SeqUpTo(Chars, MaxLen)}

\* the other requests carry a few imageBase64 strings as an extra field
OtherDocs == {Doc("object", ks, m, b, t) :
                 ks \in SUBSET Keys, m \in ModeValues \ {"image"},
                 b \in {<<>>, <<"/", "9", "j", "/">>, <<"!">>}, t \in TextValues}

Docs == {Doc("invalid", {}, "", <<>>, ""), Doc("array", {}, "", <<>>, "")}
          \cup ImageDocs \cup OtherDocs

NoDoc == Doc("unset", {}, "", <<>>, "")

\* dict.get(key): None when the key is absent
PyGet(d, key) == IF key \in d.keys THEN [none |-> FALSE, val |-> d[key]]
                 ELSE [none |-> TRUE, val |-> d[key]]

\* dict.get(key, default)
PyGetDefault(d, key, default) == IF key \in d.keys THEN d[key] ELSE default

\* Python truthiness of an optional string: None and "" are false
Falsy(x) == x.none \/ Len(x.val) = 0
FalsyStr(x) == x.none \/ x.val = ""

NoMode == [none |-> TRUE, val |-> ""]

(* ----------------------------- exceptions ------------------------------ *)
NoExc == [kind |-> "none", msg |-> <<>>]

\* raise kind(msg) inside the try block of main
Raise(kind, msg) ==
    /\ exc' = [kind |-> kind, msg |-> msg]
    /\ pc' = "except"

(* ------------------------------- state --------------------------------- *)
Init ==
    /\ stdin \in Docs
    /\ pc = "start"
    /\ payload = NoDoc
    /\ mode = NoMode
    /\ model = FALSE
    /\ embedding = NoResult
    /\ output = NoResult
    /\ exc = NoExc
    /\ stdout = <<>>
    /\ stderr = <<>>
    /\ exit_code = -1
    /\ ops = <<>>
    /\ encode_arg = <<>>

(* ------------------------------- main ---------------------------------- *)
\* a model that is constructed when the script starts, before the request
\* is read
MainLoadsModelFirst ==
    /\ pc = "start"
    /\ pc' = "json_load"
    /\ model' = TRUE
    /\ ops' = Append(ops, "load_model")
    /\ UNCHANGED <<stdin, payload, mode, embedding, output, exc, stdout,
                   stderr, exit_code, encode_arg>>

\* the script is run: main() is called and enters its try block
Main ==
    /\ pc = "start"
    /\ pc' = "json_load"
    /\ UNCHANGED <<stdin, payload, mode, model, embedding, output, exc,
                   stdout, stderr, exit_code, ops, encode_arg>>

\* payload = json.load(sys.stdin): reads all of stdin, then parses it
JsonLoad ==
    /\ pc = "json_load"
    /\ ops' = Append(ops, "read_stdin")
    /\ IF stdin.kind = "invalid"
       THEN /\ Raise("JSONDecodeError", <<"Expecting value">>)
            /\ UNCHANGED payload
       ELSE /\ payload' = stdin
            /\ pc' = "get_mode"
            /\ UNCHANGED exc
    /\ UNCHANGED <<stdin, mode, model, embedding, output, stdout, stderr,
                   exit_code, encode_arg>>

\* a mode check that raises ValueError without a message
GetModeBareRaise ==
    /\ pc = "get_mode"
    /\ IF payload.kind # "object"
       THEN /\ Raise("AttributeError", <<"object has no attribute 'get'">>)
            /\ UNCHANGED mode
       ELSE /\ mode' = PyGet(payload, "mode")
            /\ IF FalsyStr(mode')
               THEN Raise("ValueError", <<>>)
               ELSE /\ pc' = "load_model"
                    /\ UNCHANGED exc
    /\ UNCHANGED <<stdin, payload, model, embedding, output, stdout, stderr,
                   exit_code, ops, encode_arg>>

\* mode = payload.get("mode"); if not mode: raise ValueError("Missing mode")
GetMode ==
    /\ pc = "get_mode"
    /\ IF payload.kind # "object"
       THEN /\ Raise("AttributeError", <<"object has no attribute 'get'">>)
            /\ UNCHANGED mode
       ELSE /\ mode' = PyGet(payload, "mode")
            /\ IF FalsyStr(mode')
               THEN Raise("ValueError", <<"Missing mode">>)
               ELSE /\ pc' = "load_model"
                    /\ UNCHANGED exc
    /\ UNCHANGED <<stdin, payload, model, embedding, output, stdout, stderr,
                   exit_code, ops, encode_arg>>

\* model = load_model(): SentenceTransformer(MODEL_NAME) returns or raises
LoadModel ==
    /\ pc = "load_model"
    /\ ops' = Append(ops, "load_model")
    /\ \/ /\ model' = TRUE
          /\ pc' = "dispatch"
          /\ UNCHANGED exc
       \/ /\ \E m \in ModelMsgs : Raise("ModelError", m)
          /\ UNCHANGED model
    /\ UNCHANGED <<stdin, payload, mode, embedding, output, stdout, stderr,
                   exit_code, encode_arg>>

\* mode == "image": the imageBase64 check, then encode_image up to the call
\* of model.encode (b64decode, Image.open, convert, resize)
DispatchImage ==
    /\ pc = "dispatch"
    /\ mode.val = "image"
    /\ LET image_base64 == PyGet(payload, "imageBase64")
           decoded == b64decode(image_base64.val)
           opened == ImageOpen(decoded.bytes)
       IN IF Falsy(image_base64)
          THEN Raise("ValueError", <<"Missing imageBase64">>)
          ELSE IF ~decoded.ok
               THEN Raise("binascii.Error", decoded.msg)
               ELSE IF ~opened.ok
                    THEN Raise("UnidentifiedImageError", opened.msg)
                    ELSE /\ pc' = "encode_image"
                         /\ UNCHANGED exc
    /\ UNCHANGED <<stdin, payload, mode, model, embedding, output, stdout,
                   stderr, exit_code, ops, encode_arg>>

\* a text branch that returns an empty vector for an empty text without
\* asking the model
DispatchTextShortcut ==
    /\ pc = "dispatch"
    /\ mode.val = "text"
    /\ IF PyGetDefault(payload, "text", "") = ""
       THEN /\ pc' = "dump"
            /\ output' = ListOf(<<>>)
       ELSE /\ pc' = "encode_text"
            /\ UNCHANGED output
    /\ UNCHANGED <<stdin, payload, mode, model, embedding, exc, stdout,
                   stderr, exit_code, ops, encode_arg>>

\* a text branch that requires the text field the way the image branch
\* requires imageBase64
DispatchTextRequired ==
    /\ pc = "dispatch"
    /\ mode.val = "text"
    /\ IF FalsyStr(PyGet(payload, "text"))
       THEN Raise("ValueError", <<"Missing text">>)
       ELSE /\ pc' = "encode_text"
            /\ UNCHANGED exc
    /\ UNCHANGED <<stdin, payload, mode, model, embedding, output, stdout,
                   stderr, exit_code, ops, encode_arg>>

\* mode == "text": text = payload.get("text", ""), then encode_text is called
DispatchText ==
    /\ pc = "dispatch"
    /\ mode.val = "text"
    /\ pc' = "encode_text"
    /\ UNCHANGED <<stdin, payload, mode, model, embedding, output, exc,
                   stdout, stderr, exit_code, ops, encode_arg>>

\* else: raise ValueError(f"Unsupported mode: {mode}")
DispatchOther ==
    /\ pc = "dispatch"
    /\ mode.val \notin {"image", "text"}
    /\ Raise("ValueError", <<"Unsupported mode: ", mode.val>>)
    /\ UNCHANGED <<stdin, payload, mode, model, embedding, output, stdout,
                   stderr, exit_code, ops, encode_arg>>

\* encode_image from model.encode(image) on: the result goes through tolist
EncodeImage ==
    /\ pc = "encode_image"
    /\ ops' = Append(ops, "encode_image")
    /\ encode_arg' = NormalizedImage
    /\ \/ \E r \in Results :
            /\ embedding' = r
            /\ output' = ToList(r)
            /\ pc' = "dump"
            /\ UNCHANGED exc
       \/ /\ \E m \in ModelMsgs : Raise("ModelError", m)
          /\ UNCHANGED <<embedding, output>>
    /\ UNCHANGED <<stdin, payload, mode, model, stdout, stderr, exit_code>>

\* encode_text: model.encode([text]), tolist, then the batch is unwrapped
EncodeText ==
    /\ pc = "encode_text"
    /\ ops' = Append(ops, "encode_text")
    /\ encode_arg' = <<"text", PyGetDefault(payload, "text", "")>>
    /\ \/ \E r \in Results :
            /\ embedding' = r
            /\ output' = Unwrap(ToList(r))
            /\ pc' = "dump"
            /\ UNCHANGED exc
       \/ /\ \E m \in ModelMsgs : Raise("ModelError", m)
          /\ UNCHANGED <<embedding, output>>
    /\ UNCHANGED <<stdin, payload, mode, model, stdout, stderr, exit_code>>

\* json.dump(output, sys.stdout): the chunks yielded before a TypeError are
\* already written; when it returns, main returns and the process exits 0
JsonDump ==
    /\ pc = "dump"
    /\ ops' = Append(ops, "json_dump")
    /\ LET r == Iterencode(output) IN
       /\ stdout' = stdout \o r.chunks
       /\ IF r.ok
          THEN /\ pc' = "exit"
               /\ exit_code' = 0
               /\ UNCHANGED exc
          ELSE /\ Raise("TypeError", <<"Object is not JSON serializable">>)
               /\ UNCHANGED exit_code
    /\ UNCHANGED <<stdin, payload, mode, model, embedding, output, stderr,
                   encode_arg>>

\* a handler that prints the message and lets main return
ExceptNoExit ==
    /\ pc = "except"
    /\ stderr' = stderr \o exc.msg \o <<"\n">>
    /\ ops' = Append(ops, "print_stderr")
    /\ exit_code' = 0
    /\ pc' = "exit"
    /\ UNCHANGED <<stdin, payload, mode, model, embedding, output, exc,
                   stdout, encode_arg>>

\* except Exception as exc: print(str(exc), file=sys.stderr); sys.exit(1)
Except ==
    /\ pc = "except"
    /\ stderr' = stderr \o exc.msg \o <<"\n">>
    /\ ops' = Append(ops, "print_stderr")
    /\ exit_code' = 1
    /\ pc' = "exit"
    /\ UNCHANGED <<stdin, payload, mode, model, embedding, output, exc,
                   stdout, encode_arg>>

Next ==
    \/ Main
    \/ JsonLoad
    \/ GetMode
    \/ LoadModel
    \/ DispatchImage
    \/ DispatchText
    \/ DispatchOther
    \/ EncodeImage
    \/ EncodeText
    \/ JsonDump
    \/ Except

Spec == Init /\ [][Next]_vars

\* the script is sequential and single-threaded: a statement that can run
\* does run
FairSpec == Spec /\ WF_vars(Next)

(* ----------------------------- properties ------------------------------ *)
Called(op) == \E i \in DOMAIN ops : ops[i] = op

\* the complete JSON text of a value, as the list of its chunks
CompleteJson(v) == Iterencode(v).chunks

\* C1: a run that ends without an exception has written the complete vector
\* to standard output, nothing to standard error, and exits 0; a run in which
\* any stage raised has the exception's message and a newline on standard
\* error and exits 1, whatever the kind; a raised exception is never
\* recovered from and no operation is called twice.
C1_ExitStatusByOutcome ==
    /\ exc # NoExc => pc \in {"except", "exit"}
    /\ \A i, j \in DOMAIN ops : i # j => ops[i] # ops[j]
    /\ pc = "exit" =>
         /\ exit_code \in {0, 1}
         /\ (exit_code = 0) <=> (exc = NoExc)
         /\ exit_code = 0 =>
              /\ Iterencode(output).ok
              /\ stdout = CompleteJson(output)
              /\ stderr = <<>>
         /\ exit_code = 1 => stderr = exc.msg \o <<"\n">>

C1_Witness ==
    /\ pc = "exit"
    /\ exit_code = 1
    /\ exc.kind = "UnidentifiedImageError"
    /\ stderr = <<"cannot identify image file", "\n">>

\* C2: a run that exits 1 has written nothing to standard output; standard
\* output holds one complete JSON vector (exit 0) or nothing at all.
C2_NoPartialOutput ==
    pc = "exit" =>
        IF exit_code = 0 THEN stdout = CompleteJson(output) ELSE stdout = <<>>

\* C3: a request whose mode is a value other than "image" and "text" exits
\* 1 with a message on standard error that names the mode value, whatever
\* the outcome of the model construction.
C3_UnsupportedModeNamed ==
    (/\ pc = "exit"
     /\ stdin.kind = "object"
     /\ "mode" \in stdin.keys
     /\ stdin.mode \notin {"image", "text", ""})
    => /\ exit_code = 1
       /\ \E i \in DOMAIN stderr : stderr[i] = stdin.mode

MissingMode ==
    \/ stdin.kind = "array"
    \/ stdin.kind = "object" /\ "mode" \notin stdin.keys

\* C4: valid JSON without a mode (an object without the key, or a document
\* that is not an object) exits 1 with a non-empty message on standard error
\* and nothing on standard output.
C4_MissingModeFails ==
    MissingMode =>
        /\ stdout = <<>>
        /\ pc = "exit" =>
             /\ exit_code = 1
             /\ Len(stderr) >= 2
             /\ stderr[1] # ""

C4_Witness ==
    /\ pc = "exit"
    /\ stdin.kind = "object"
    /\ "mode" \notin stdin.keys
    /\ "text" \in stdin.keys
    /\ stderr = <<"Missing mode", "\n">>

\* strictly valid base64: only alphabet characters, a multiple of four long,
\* at most two pad characters and only at the end
IsValidBase64(s) ==
    /\ Len(s) % 4 = 0
    /\ \A i \in DOMAIN s : s[i] \in B64Alphabet \cup {PadChar}
    /\ \A i \in DOMAIN s : s[i] = PadChar =>
         /\ i >= Len(s) - 1
         /\ \A j \in i..Len(s) : s[j] = PadChar

ImageRequest ==
    /\ stdin.kind = "object"
    /\ "mode" \in stdin.keys
    /\ stdin.mode = "image"
    /\ "imageBase64" \in stdin.keys
    /\ stdin.imageBase64 # <<>>

\* C5: an image request whose imageBase64 is not valid base64, or does not
\* decode to a valid image, exits 1 and model.encode is never called.
C5_BadImagePayloadFails ==
    (/\ ImageRequest
     /\ \/ ~IsValidBase64(stdin.imageBase64)
        \/ ~ImageOpen(b64decode(stdin.imageBase64).bytes).ok)
    => /\ ~Called("encode_image")
       /\ pc = "exit" => exit_code = 1

TextOmitted ==
    /\ stdin.kind = "object"
    /\ "mode" \in stdin.keys
    /\ stdin.mode = "text"
    /\ "text" \notin stdin.keys

C7_ModelOnlyForValidRequest ==
    Called("load_model") =>
        \/ ImageRequest
        \/ stdin.kind = "object" /\ "mode" \in stdin.keys /\ stdin.mode = "text"

\* the state of the specification's state machine a position of main is in
PhaseOf(p, code) ==
    CASE p = "start" -> "Start"
      [] p \in {"json_load", "get_mode", "load_model", "dispatch"} -> "Decoding"
      [] p \in {"encode_image", "encode_text"} -> "Encoding"
      [] p = "dump" -> "Serializing"
      [] p = "except" -> "Failed"
      [] p = "exit" -> IF code = 0 THEN "Done" ELSE "Failed"

Phase == PhaseOf(pc, exit_code)

LinearEdges ==
    {<<"Start", "Decoding">>, <<"Decoding", "Decoding">>,
     <<"Decoding", "Encoding">>, <<"Encoding", "Serializing">>,
     <<"Serializing", "Done">>,
     <<"Decoding", "Failed">>, <<"Encoding", "Failed">>, <<"Failed", "Failed">>}

\* a step of main is an edge of the state machine
PhaseStep(edges) == (<<Phase, PhaseOf(pc', exit_code')>> \in edges)

\* C8 as stated: every step follows Start -> Decoding -> Encoding ->
\* Serializing -> Done, and Failed is entered only from Decoding or Encoding.
C8_Original ==
    [][PhaseStep(LinearEdges)]_vars

\* C8 amended: every step follows Start -> Decoding -> Encoding ->
\* Serializing -> Done with no state skipped or revisited, Failed (exit 1) is
\* entered only from Decoding, Encoding or Serializing and never from Done,
\* and every run ends in exactly one of Done (exit 0) or Failed (exit 1).
C8_LinearStateMachine ==
    /\ [][PhaseStep(LinearEdges \cup {<<"Serializing", "Failed">>})]_vars
    /\ <>[](pc = "exit" /\ (Phase = "Done" <=> exit_code = 0)
                        /\ (Phase = "Failed" <=> exit_code = 1))

C8_Witness ==
    /\ pc = "exit"
    /\ Phase = "Failed"
    /\ exc.kind = "TypeError"
    /\ Called("json_dump")

OpRank(op) ==
    CASE op = "read_stdin" -> 1
      [] op = "load_model" -> 2
      [] op \in {"encode_image", "encode_text"} -> 3
      [] op = "json_dump" -> 4
      [] op = "print_stderr" -> 5

\* C9: the operations of a run happen at most once each and in the order
\* read stdin, load the model, encode (image or text, never both), write to
\* standard output, write to standard error; stdin is read before anything
\* else, and nothing is encoded without a successful model load.
C9_FixedOrder ==
    /\ \A i, j \in DOMAIN ops : i < j => OpRank(ops[i]) < OpRank(ops[j])
    /\ ops # <<>> => ops[1] = "read_stdin"
    /\ pc \notin {"start", "json_load"} => Called("read_stdin")
    /\ (Called("encode_image") \/ Called("encode_text")) =>
          Called("load_model") /\ model
    /\ Called("json_dump") => (Called("encode_image") \/ Called("encode_text"))
    /\ (stdout # <<>> \/ stderr # <<>>) =>
          (Called("json_dump") \/ Called("print_stderr"))

C9_Witness ==
    /\ pc = "exit"
    /\ ops = <<"read_stdin", "load_model", "encode_image", "json_dump",
               "print_stderr">>

\* the result of model.encode after tolist
Converted == IF embedding.kind = "ndarray"
             THEN [embedding EXCEPT !.kind = "list"] ELSE embedding

\* C10 as stated: encode_text returns the inner sequence when the converted
\* result is a list holding exactly one inner list, and the converted result
\* unchanged otherwise.
C10_Original ==
    (Called("encode_text") /\ embedding # NoResult) =>
        IF /\ Converted.kind = "list"
           /\ Len(Converted.items) = 1
           /\ Converted.items[1].isList
        THEN output = ListOf(Converted.items[1].vals)
        ELSE output = Converted

\* C10 amended: encode_text returns the first element of the converted
\* result when that result is a non-empty list whose first element is a list
\* (whatever follows the first element), and the converted result unchanged
\* otherwise (an empty sequence, a flat sequence of numbers, a non-list
\* value).
C10_UnwrapFirstRow ==
    (Called("encode_text") /\ embedding # NoResult) =>
        IF /\ Converted.kind = "list"
           /\ Converted.items # <<>>
           /\ Converted.items[1].isList
        THEN /\ output.kind = "list"
             /\ Len(output.items) = Len(Converted.items[1].vals)
             /\ \A k \in DOMAIN output.items :
                  output.items[k] = ScalarElem(Converted.items[1].vals[k])
        ELSE output = Converted

C10_Witness ==
    /\ Called("encode_text")
    /\ embedding.kind = "ndarray"
    /\ Len(embedding.items) = 2
    /\ embedding.items[1] = [isList |-> TRUE, vals |-> <<"0.5", "0.5">>]
    /\ embedding.items[2].isList
    /\ output = ListOf(<<"0.5", "0.5">>)

====
